---- MODULE Spec2Model ----
(***************************************************************************)
(* Model of bin/weectllib/database_cmd.py: the "weectl database" command.  *)
(* add_subparser declares six sub-actions with their flag schemas and      *)
(* binds each to a dispatch function; every dispatch function forwards the *)
(* parsed namespace to one operation of weectllib.db_actions.              *)
(*                                                                         *)
(* One behaviour is one invocation: the command line (argv) is parsed      *)
(* against the schema, which yields either a parse error or a namespace,   *)
(* and the function bound to the namespace is then called.  Every call     *)
(* made on weectllib.db_actions is recorded in "calls".                    *)
(*                                                                         *)
(* Column types are modelled as sequences of characters so that            *)
(* str.upper() and the comparison with 'INT' are computed, not assumed.    *)
(***************************************************************************)
EXTENDS Integers, Sequences, FiniteSets, TLC

VARIABLES argv, pc, namespace, calls

vars == <<argv, pc, namespace, calls>>

(* ------------------------------ bounds --------------------------------- *)

\* Largest number of positional NAME arguments on a command line.
MaxNames == 2

(* ----------------------------- values ---------------------------------- *)

\* Python's None.
None == "<None>"

\* An option that does not occur on the command line.
Absent == "<absent>"

\* `weectl database` with no action name after it.
NoAction == "<no action>"

ConfigPaths == {"/etc/weewx/weewx.conf"}
BindingNames == {"wx_binding", "alt_binding"}
Dates == {"2024-01-01"}
ColumnNames == {"outTemp", "inTemp"}
NewNames == {"outTemp", "extraTemp1"}

S_REAL == <<"R", "E", "A", "L">>
S_INTEGER == <<"I", "N", "T", "E", "G", "E", "R">>
S_INT == <<"I", "N", "T">>
S_real == <<"r", "e", "a", "l">>
S_integer == <<"i", "n", "t", "e", "g", "e", "r">>
S_int == <<"i", "n", "t">>
S_text == <<"t", "e", "x", "t">>

\* The upper-case form of one character (str.upper on a 1-character string).
UpperChar(c) ==
    CASE c = "a" -> "A" [] c = "e" -> "E" [] c = "g" -> "G" [] c = "i" -> "I"
      [] c = "l" -> "L" [] c = "n" -> "N" [] c = "r" -> "R" [] c = "t" -> "T"
      [] c = "x" -> "X" [] OTHER -> c

\* str.upper()
upper(s) == [i \in 1..Len(s) |-> UpperChar(s[i])]

\* Every spelling of the lower-case word w in which any subset of the
\* letters is capitalised.
CaseVariants(w) ==
    {[i \in 1..Len(w) |-> IF i \in S THEN UpperChar(w[i]) ELSE w[i]] :
        S \in SUBSET (1..Len(w))}

\* The values given to --type on the command lines considered.
TypeValues ==
    CaseVariants(S_int) \cup CaseVariants(S_real) \cup CaseVariants(S_integer)
        \cup {S_text}

NoType == [given |-> FALSE, value |-> <<>>]
TypeArgs == {NoType} \cup {[given |-> TRUE, value |-> v] : v \in TypeValues}

\* Sequences of at most n column names.
NameSeqs(n) == UNION {[1..k -> ColumnNames] : k \in 0..n}

(* --------------------------- command lines ----------------------------- *)

Opt(S) == {Absent} \cup S

ArgvSet(acts, dates, froms, tos, types, tonames, names) ==
    [action : acts, config : Opt(ConfigPaths), binding : Opt(BindingNames),
     dry_run : BOOLEAN, date : dates, from : froms, to : tos, type : types,
     to_name : tonames, names : names]

\* The command lines of the model: each action with every combination of
\* its own arguments, each action with arguments of the other actions, and
\* `database` followed by no action or by an unknown word.
Inputs ==
    ArgvSet({"create", "drop-daily"}, {Absent}, {Absent}, {Absent},
            {NoType}, {Absent}, {<<>>})
    \cup ArgvSet({"rebuild-daily"}, Opt(Dates), Opt(Dates), Opt(Dates),
                 {NoType}, {Absent}, {<<>>})
    \cup ArgvSet({"add-column"}, {Absent}, {Absent}, {Absent},
                 TypeArgs, {Absent}, NameSeqs(MaxNames))
    \cup ArgvSet({"rename-column"}, {Absent}, {Absent}, {Absent},
                 {NoType}, Opt(NewNames), NameSeqs(MaxNames))
    \cup ArgvSet({"drop-columns"}, {Absent}, {Absent}, {Absent},
                 {NoType}, {Absent}, NameSeqs(MaxNames))
    \cup ArgvSet({"create", "drop-daily", "rebuild-daily", "add-column",
                  "rename-column", "drop-columns", "schema", NoAction},
                 Opt(Dates), {Absent}, {Absent},
                 {NoType, [given |-> TRUE, value |-> S_REAL]},
                 Opt({"extraTemp1"}), NameSeqs(1))

(* ------------------------ add_subparser: schema ------------------------ *)

\* The names registered with action_parser.add_parser.
Actions ==
    {"create", "drop-daily", "rebuild-daily", "add-column", "rename-column",
     "drop-columns"}

\* The options each sub-parser declares with add_argument.
Options(action) ==
    {"config", "binding", "dry_run"} \cup
    CASE action = "rebuild-daily" -> {"date", "from", "to"}
      [] action = "add-column" -> {"type"}
      [] action = "rename-column" -> {"to_name"}
      [] OTHER -> {}

\* Variant: --to-name declared without required=True.
Required_none(action) == {}

\* The options declared with required=True.
Required(action) ==
    IF action = "rename-column" THEN {"to_name"} ELSE {}

\* Whether n positional arguments fit the positionals a sub-parser declares:
\* none, exactly one (column_name), or one or more (column_names, nargs="+").
PositionalsFit(action, n) ==
    CASE action \in {"add-column", "rename-column"} -> n = 1
      [] action = "drop-columns" -> n >= 1
      [] OTHER -> n = 0

\* Variant: the choices list also holds 'INT'.
Choices_with_INT == {S_REAL, S_INTEGER, S_real, S_integer, S_int, S_INT}

\* choices= of add-column's --type.
Choices == {S_REAL, S_INTEGER, S_real, S_integer, S_int}

\* default= of add-column's --type.
column_type_default == S_REAL

\* Variant: the drop-columns sub-parser declares --binding with no default.
binding_default_missing(action) ==
    IF action = "drop-columns" THEN None ELSE "wx_binding"

\* default= of each sub-parser's --binding.
binding_default(action) == "wx_binding"

\* Variant: --config declared with the default path of the help text.
config_default_path(action) == "/home/weewx/weewx-data/weewx.conf"

\* default of each sub-parser's --config: none is declared.
config_default(action) == None

\* Variant: the functions of create and drop-daily exchanged.
FuncOf_swapped(action) ==
    CASE action = "create" -> "drop_daily"
      [] action = "drop-daily" -> "create_database"
      [] action = "rebuild-daily" -> "rebuild_daily"
      [] action = "add-column" -> "add_column"
      [] action = "rename-column" -> "rename_column"
      [] action = "drop-columns" -> "drop_columns"

\* set_defaults(func=...) of each sub-parser.
FuncOf(action) ==
    CASE action = "create" -> "create_database"
      [] action = "drop-daily" -> "drop_daily"
      [] action = "rebuild-daily" -> "rebuild_daily"
      [] action = "add-column" -> "add_column"
      [] action = "rename-column" -> "rename_column"
      [] action = "drop-columns" -> "drop_columns"

(* ------------------------ add_subparser: parsing ----------------------- *)

\* The options that occur on a command line.
Given(a) ==
    {o \in {"config"} : a.config # Absent}
    \cup {o \in {"binding"} : a.binding # Absent}
    \cup {o \in {"dry_run"} : a.dry_run}
    \cup {o \in {"date"} : a.date # Absent}
    \cup {o \in {"from"} : a.from # Absent}
    \cup {o \in {"to"} : a.to # Absent}
    \cup {o \in {"type"} : a.type.given}
    \cup {o \in {"to_name"} : a.to_name # Absent}

\* Whether the parser built by add_subparser accepts a command line.  The
\* action sub-parsers are optional, so `database` alone is accepted; an
\* unknown action name, an undeclared argument, a missing required
\* argument and a --type outside the choices are errors.
Accepts(a) ==
    IF a.action = NoAction
    THEN Given(a) = {} /\ a.names = <<>>
    ELSE /\ a.action \in Actions
         /\ Given(a) \subseteq Options(a.action)
         /\ Required(a.action) \subseteq Given(a)
         /\ PositionalsFit(a.action, Len(a.names))
         /\ a.type.given => a.type.value \in Choices

OrDefault(v, d) == IF v = Absent THEN d ELSE v

\* The attributes every sub-parser stores.
CommonFields(a) ==
    [action |-> a.action, func |-> FuncOf(a.action),
     config |-> OrDefault(a.config, config_default(a.action)),
     binding |-> OrDefault(a.binding, binding_default(a.action)),
     dry_run |-> a.dry_run]

\* Record r extended by the fields of record s.
Extend(r, s) ==
    [f \in DOMAIN r \cup DOMAIN s |-> IF f \in DOMAIN s THEN s[f] ELSE r[f]]

\* The namespace of an accepted command line: the attributes of the chosen
\* sub-parser and no others.
parse_args(a) ==
    CASE a.action = NoAction -> [action |-> None]
      [] a.action \in {"create", "drop-daily"} -> CommonFields(a)
      [] a.action = "rebuild-daily" ->
            Extend(CommonFields(a),
                   [date |-> OrDefault(a.date, None),
                    from_date |-> OrDefault(a.from, None),
                    to_date |-> OrDefault(a.to, None)])
      [] a.action = "add-column" ->
            Extend(CommonFields(a),
                   [column_name |-> a.names[1],
                    column_type |-> IF a.type.given THEN a.type.value
                                    ELSE column_type_default])
      [] a.action = "rename-column" ->
            Extend(CommonFields(a),
                   [column_name |-> a.names[1], new_name |-> a.to_name])
      [] a.action = "drop-columns" ->
            Extend(CommonFields(a), [column_names |-> a.names])

\* The namespace before parsing and after a parse error.
NoNamespace == [action |-> "<no namespace>"]

(* ------------------------------ actions -------------------------------- *)

Init ==
    /\ argv \in Inputs
    /\ pc = "start"
    /\ namespace = NoNamespace
    /\ calls = <<>>

\* Parse the command line.
ParseArgs ==
    /\ pc = "start"
    /\ IF Accepts(argv)
       THEN pc' = "parsed" /\ namespace' = parse_args(argv)
       ELSE pc' = "error" /\ namespace' = NoNamespace
    /\ UNCHANGED <<argv, calls>>

\* The namespace carries the dispatch function f.
Bound(f) ==
    /\ pc = "parsed"
    /\ "func" \in DOMAIN namespace
    /\ namespace.func = f

create_database ==
    /\ Bound("create_database")
    /\ calls' = Append(calls, [op |-> "create_database",
                               config_path |-> namespace.config,
                               db_binding |-> namespace.binding,
                               dry_run |-> namespace.dry_run])
    /\ pc' = "done"
    /\ UNCHANGED <<argv, namespace>>

\* Variant: drop_daily calls the collaborator twice.
drop_daily_twice ==
    /\ Bound("drop_daily")
    /\ LET call == [op |-> "drop_daily",
                    config_path |-> namespace.config,
                    db_binding |-> namespace.binding,
                    dry_run |-> namespace.dry_run]
       IN calls' = Append(Append(calls, call), call)
    /\ pc' = "done"
    /\ UNCHANGED <<argv, namespace>>

drop_daily ==
    /\ Bound("drop_daily")
    /\ calls' = Append(calls, [op |-> "drop_daily",
                               config_path |-> namespace.config,
                               db_binding |-> namespace.binding,
                               dry_run |-> namespace.dry_run])
    /\ pc' = "done"
    /\ UNCHANGED <<argv, namespace>>

rebuild_daily ==
    /\ Bound("rebuild_daily")
    /\ calls' = Append(calls, [op |-> "rebuild_daily",
                               config_path |-> namespace.config,
                               db_binding |-> namespace.binding,
                               date |-> namespace.date,
                               from_date |-> namespace.from_date,
                               to_date |-> namespace.to_date,
                               dry_run |-> namespace.dry_run])
    /\ pc' = "done"
    /\ UNCHANGED <<argv, namespace>>

\* Variant: add_column without the mapping of 'INT' to 'INTEGER'.
add_column_no_int_map ==
    /\ Bound("add_column")
    /\ calls' = Append(calls, [op |-> "add_column",
                               config_path |-> namespace.config,
                               db_binding |-> namespace.binding,
                               column_name |-> namespace.column_name,
                               column_type |-> upper(namespace.column_type),
                               dry_run |-> namespace.dry_run])
    /\ pc' = "done"
    /\ UNCHANGED <<argv, namespace>>

\* Variant: add_column without the call of upper().
add_column_no_upper ==
    /\ Bound("add_column")
    /\ LET column_type == IF namespace.column_type = S_INT THEN S_INTEGER
                          ELSE namespace.column_type
       IN calls' = Append(calls, [op |-> "add_column",
                                  config_path |-> namespace.config,
                                  db_binding |-> namespace.binding,
                                  column_name |-> namespace.column_name,
                                  column_type |-> column_type,
                                  dry_run |-> namespace.dry_run])
    /\ pc' = "done"
    /\ UNCHANGED <<argv, namespace>>

add_column ==
    /\ Bound("add_column")
    /\ LET upper_type == upper(namespace.column_type)
           column_type == IF upper_type = S_INT THEN S_INTEGER ELSE upper_type
       IN calls' = Append(calls, [op |-> "add_column",
                                  config_path |-> namespace.config,
                                  db_binding |-> namespace.binding,
                                  column_name |-> namespace.column_name,
                                  column_type |-> column_type,
                                  dry_run |-> namespace.dry_run])
    /\ pc' = "done"
    /\ UNCHANGED <<argv, namespace>>

\* Variant: rename_column with the two names exchanged.
rename_column_swapped ==
    /\ Bound("rename_column")
    /\ calls' = Append(calls, [op |-> "rename_column",
                               config_path |-> namespace.config,
                               db_binding |-> namespace.binding,
                               column_name |-> namespace.new_name,
                               new_name |-> namespace.column_name,
                               dry_run |-> namespace.dry_run])
    /\ pc' = "done"
    /\ UNCHANGED <<argv, namespace>>

rename_column ==
    /\ Bound("rename_column")
    /\ calls' = Append(calls, [op |-> "rename_column",
                               config_path |-> namespace.config,
                               db_binding |-> namespace.binding,
                               column_name |-> namespace.column_name,
                               new_name |-> namespace.new_name,
                               dry_run |-> namespace.dry_run])
    /\ pc' = "done"
    /\ UNCHANGED <<argv, namespace>>

drop_columns ==
    /\ Bound("drop_columns")
    /\ calls' = Append(calls, [op |-> "drop_columns",
                               config_path |-> namespace.config,
                               db_binding |-> namespace.binding,
                               column_names |-> namespace.column_names,
                               dry_run |-> namespace.dry_run])
    /\ pc' = "done"
    /\ UNCHANGED <<argv, namespace>>

Next ==
    \/ ParseArgs
    \/ create_database
    \/ drop_daily
    \/ rebuild_daily
    \/ add_column
    \/ rename_column
    \/ drop_columns

Spec == Init /\ [][Next]_vars

(* ----------------------------- properties ------------------------------ *)

\* The calls made on weectllib.db_actions so far.
CallsMade == {calls[i] : i \in 1..Len(calls)}

\* An add-column command line that is well formed apart from its --type.
AddColumnWithType ==
    /\ argv.action = "add-column"
    /\ argv.type.given
    /\ Len(argv.names) = 1
    /\ argv.date = Absent /\ argv.from = Absent /\ argv.to = Absent
    /\ argv.to_name = Absent

\* The five spellings listed for --type.
ListedSpellings == {S_REAL, S_INTEGER, S_real, S_integer, S_int}

\* C1: the column type add_column passes on is derived from the --type
\* value: INT in any letter case is passed as INTEGER, real and REAL as
\* REAL, integer and INTEGER as INTEGER.
C1_TypeNormalised ==
    \A c \in CallsMade :
        (c.op = "add_column" /\ argv.type.given) =>
            /\ argv.type.value \in CaseVariants(S_int)
                    => c.column_type = S_INTEGER
            /\ argv.type.value \in {S_real, S_REAL} => c.column_type = S_REAL
            /\ argv.type.value \in {S_integer, S_INTEGER}
                    => c.column_type = S_INTEGER

\* C1 witness: --type int was given and INTEGER was passed on.
C1_Witness ==
    /\ pc = "done"
    /\ argv.type.given /\ argv.type.value = S_int
    /\ Len(calls) = 1
    /\ calls[1].op = "add_column" /\ calls[1].column_type = S_INTEGER

\* C2: the call receives every field of the namespace that belongs to the
\* sub-action, each under the matching parameter with its value unchanged;
\* only add-column's column type may differ.
C2_ForwardedVerbatim ==
    \A c \in CallsMade :
        /\ c.config_path = namespace.config
        /\ c.db_binding = namespace.binding
        /\ c.dry_run = namespace.dry_run
        /\ Cardinality(DOMAIN c \ {"op"})
              = Cardinality(DOMAIN namespace \ {"action", "func"})
        /\ CASE namespace.action \in {"create", "drop-daily"} ->
                  DOMAIN c = {"op", "config_path", "db_binding", "dry_run"}
             [] namespace.action = "rebuild-daily" ->
                  /\ DOMAIN c = {"op", "config_path", "db_binding", "dry_run",
                                 "date", "from_date", "to_date"}
                  /\ c.date = namespace.date
                  /\ c.from_date = namespace.from_date
                  /\ c.to_date = namespace.to_date
             [] namespace.action = "add-column" ->
                  /\ DOMAIN c = {"op", "config_path", "db_binding", "dry_run",
                                 "column_name", "column_type"}
                  /\ c.column_name = namespace.column_name
             [] namespace.action = "rename-column" ->
                  /\ DOMAIN c = {"op", "config_path", "db_binding", "dry_run",
                                 "column_name", "new_name"}
                  /\ c.column_name = namespace.column_name
                  /\ c.new_name = namespace.new_name
             [] namespace.action = "drop-columns" ->
                  /\ DOMAIN c = {"op", "config_path", "db_binding", "dry_run",
                                 "column_names"}
                  /\ c.column_names = namespace.column_names
             [] OTHER -> FALSE

\* C2 witness: rename-column forwarded two different names.
C2_Witness ==
    /\ pc = "done"
    /\ argv.action = "rename-column"
    /\ Len(calls) = 1
    /\ calls[1].column_name = "inTemp" /\ calls[1].new_name = "extraTemp1"
    /\ calls[1].config_path = "/etc/weewx/weewx.conf"
    /\ calls[1].db_binding = "alt_binding"
    /\ calls[1].dry_run

\* C3 as stated: every accepted invocation, `database` with no action name
\* included, has exactly one of the six actions selected and results in
\* exactly one call.
C3_ExactlyOneAction ==
    pc \in {"parsed", "done"} =>
        /\ namespace.action \in Actions
        /\ pc = "parsed" => ENABLED Next
        /\ pc = "done" => Len(calls) = 1

\* C3 amended: an accepted invocation that names an action has exactly that
\* action selected and one dispatch function bound, and makes exactly one
\* call; `database` with no action name is accepted with no action selected
\* and no function bound, and makes no call.
C3_AtMostOneAction ==
    /\ pc \in {"start", "error"} => calls = <<>>
    /\ pc \in {"parsed", "done"} =>
          IF argv.action = NoAction
          THEN /\ namespace.action = None
               /\ "func" \notin DOMAIN namespace
               /\ pc = "parsed" /\ calls = <<>>
               /\ ~ ENABLED Next
          ELSE /\ argv.action \in Actions
               /\ namespace.action = argv.action
               /\ "func" \in DOMAIN namespace
               /\ pc = "parsed" => (calls = <<>> /\ ENABLED Next)
               /\ pc = "done" => Len(calls) = 1

\* C3 witness: drop-daily was selected and made its one call.
C3_Witness ==
    /\ pc = "done"
    /\ argv.action = "drop-daily" /\ namespace.action = "drop-daily"
    /\ Len(calls) = 1

\* C4 as stated: every letter-case variant of REAL, INTEGER and INT is
\* accepted for --type.
C4_AnyCaseAccepted ==
    (/\ AddColumnWithType
     /\ argv.type.value \in CaseVariants(S_real) \cup CaseVariants(S_integer)
                                \cup CaseVariants(S_int))
        => pc # "error"

\* C4 amended: --type accepts exactly the five spellings REAL, INTEGER,
\* real, integer and int; each of them reaches add_column, and every other
\* spelling (INT, Int, Real, Integer, ...) is a parse error.
C4_ListedSpellingsAccepted ==
    (AddColumnWithType /\ pc # "start") =>
        /\ pc = "error" <=> argv.type.value \notin ListedSpellings
        /\ pc = "parsed" => namespace.func = "add_column" /\ ENABLED add_column
        /\ pc = "done" => (Len(calls) = 1 /\ calls[1].op = "add_column")

\* C4 witness: --type integer reached add_column.
C4_Witness ==
    /\ pc = "done"
    /\ AddColumnWithType /\ argv.type.value = S_integer
    /\ Len(calls) = 1 /\ calls[1].op = "add_column"

\* C5: the column type that reaches the collaborator's add_column is
\* exactly REAL or exactly INTEGER.
C5_RealOrInteger ==
    \A c \in CallsMade :
        c.op = "add_column" => c.column_type \in {S_REAL, S_INTEGER}

\* C5 witness: --type was omitted and REAL reached the collaborator.
C5_Witness ==
    /\ pc = "done"
    /\ argv.action = "add-column" /\ ~ argv.type.given
    /\ Len(calls) = 1
    /\ calls[1].op = "add_column" /\ calls[1].column_type = S_REAL

\* C6: no rebuild_daily call has date set together with from_date or
\* to_date.
C6_DateModesExclusive ==
    \A c \in CallsMade :
        c.op = "rebuild_daily" =>
            ~ (c.date # None /\ (c.from_date # None \/ c.to_date # None))

\* The operation that belongs to each action name.
OwnOperation ==
    {<<"create", "create_database">>, <<"drop-daily", "drop_daily">>,
     <<"rebuild-daily", "rebuild_daily">>, <<"add-column", "add_column">>,
     <<"rename-column", "rename_column">>, <<"drop-columns", "drop_columns">>}

\* C7: each action name is bound to the dispatch function and operation of
\* the same meaning and to no other.
C7_BoundToOwnOperation ==
    /\ (pc \in {"parsed", "done"} /\ argv.action \in Actions)
            => <<argv.action, namespace.func>> \in OwnOperation
    /\ \A c \in CallsMade : <<argv.action, c.op>> \in OwnOperation

\* C7 witness: create reached create_database.
C7_Witness ==
    /\ pc = "done"
    /\ argv.action = "create"
    /\ Len(calls) = 1 /\ calls[1].op = "create_database"

\* C8: without --binding the collaborator receives wx_binding, with
\* --binding it receives the given name.
C8_BindingDefault ==
    \A c \in CallsMade :
        c.db_binding = IF argv.binding = Absent THEN "wx_binding"
                       ELSE argv.binding

\* C8 witness: drop-columns without --binding passed wx_binding.
C8_Witness ==
    /\ pc = "done"
    /\ argv.action = "drop-columns" /\ argv.binding = Absent
    /\ Len(calls) = 1 /\ calls[1].db_binding = "wx_binding"

\* A command line with one of the schema violations: rename-column without
\* --to-name, add-column with an unlisted --type, add-column or
\* rename-column without the positional name, drop-columns without names.
ViolatesSchema ==
    \/ argv.action = "rename-column" /\ argv.to_name = Absent
    \/ /\ argv.action = "add-column"
       /\ argv.type.given /\ argv.type.value \notin ListedSpellings
    \/ argv.action \in {"add-column", "rename-column"} /\ argv.names = <<>>
    \/ argv.action = "drop-columns" /\ argv.names = <<>>

\* C9: an invocation that violates the flag schema ends in a parse error
\* and calls no collaborator operation.
C9_ParseErrorCallsNothing ==
    /\ ViolatesSchema => (pc \in {"start", "error"} /\ calls = <<>>)
    /\ pc = "error" => (calls = <<>> /\ ~ ENABLED Next)

\* C9 witness: rename-column with a name but no --to-name was rejected.
C9_Witness ==
    /\ pc = "error"
    /\ argv.action = "rename-column"
    /\ Len(argv.names) = 1 /\ argv.to_name = Absent
    /\ calls = <<>>

\* C10: without --config the config path passed to the collaborator is
\* None.
C10_ConfigNone ==
    \A c \in CallsMade : argv.config = Absent => c.config_path = None

\* C10 witness: rebuild-daily without --config passed None.
C10_Witness ==
    /\ pc = "done"
    /\ argv.action = "rebuild-daily" /\ argv.config = Absent
    /\ Len(calls) = 1 /\ calls[1].config_path = None

====
